---------------------------- MODULE Spec2Model ----------------------------
(***************************************************************************)
(* A model of src/analysis.py: class DSATWhatIfAnalyzer (scoring maps,    *)
(* adaptive difficulty classification, per-subject aggregation, what-if   *)
(* rescoring and threshold calibration).                                  *)
(*                                                                         *)
(* Numbers.  The code compares Python floats.  A threshold is modelled as  *)
(* [pct, ulp]: the double nearest to pct/100 (ulp = 0) or the double just  *)
(* below it (ulp = -1, as numpy.arange(0.3, 0.8, 0.05) produces for most   *)
(* of its elements).  A ratio c/t of small integers is the correctly       *)
(* rounded quotient, so  c/t >= threshold  is decided by integer           *)
(* arithmetic on 100*c and pct*t; two ratios compare as their cross        *)
(* products.                                                               *)
(***************************************************************************)
EXTENDS Integers, Sequences, FiniteSets, TLC

VARIABLES
    scoring_maps,         \* self.scoring_maps: sequence of [key, map]
    placeholder_scoring,  \* self.placeholder_scoring
    adaptive_threshold,   \* self.adaptive_threshold
    student_data,         \* the loaded response list of the run
    pc,                   \* position of the run: "loaded", "analyzed", "done";
                          \* "call", "returned" for a method called on its own
    performance,          \* result of analyze_performance
    calls,                \* (function, subject) calls made by analyze_performance
    additional_correct,   \* argument of what_if_analysis
    what_if_results,      \* result of what_if_analysis
    fn,                   \* name of the last method called on its own
    fn_args,              \* its arguments
    fn_ret,               \* its return value
    threshold_data,       \* the sample list given to find_optimal_threshold
    optimal_threshold     \* its result

vars == <<scoring_maps, placeholder_scoring, adaptive_threshold, student_data, pc,
          performance, calls, additional_correct, what_if_results,
          fn, fn_args, fn_ret, threshold_data, optimal_threshold>>

---------------------------------------------------------------------------
(* Bounds of the model *)

\* longest enumerated response list
MaxResponses == 2
\* largest additional_correct passed to what_if_analysis
MaxAdditional == 2
\* largest raw score passed to calculate_scaled_score on its own
MaxRawArg == 56
\* largest module1_correct / module1_total passed to determine_module2_difficulty
MaxModule1 == 5
\* longest enumerated sample list of find_optimal_threshold
MaxSamples == 2

---------------------------------------------------------------------------
(* Constants of the program *)

DefaultScore == 200
MathPlaceholderLen == 45
RWPlaceholderLen == 55
SlowLimitMs == 60000

SubjectSeq == <<"Math", "Reading and Writing">>
SubjectSet == {SubjectSeq[i] : i \in DOMAIN SubjectSeq}
Stage1Section == "Static"
Stage2Sections == {"Hard", "Adaptive", "Module 2", "AdaptiveHard"}
Tiers == {"hard", "easy"}
None == "None"

Thr(p, u) == [pct |-> p, ulp |-> u]
\* adaptive_threshold = 0.6, the default and the value the program passes
DefaultThreshold == Thr(60, 0)

---------------------------------------------------------------------------
(* __init__ *)

\* the placeholder map with the two tier columns exchanged
PlaceholderMapsSwapped ==
    << [key |-> "Math",
        map |-> [i \in 1..MathPlaceholderLen |->
                   [raw |-> i - 1, hard |-> 200 + (i - 1) * 10, easy |-> 200 + (i - 1) * 15]]],
       [key |-> "Reading and Writing",
        map |-> [i \in 1..RWPlaceholderLen |->
                   [raw |-> i - 1, hard |-> 200 + (i - 1) * 8, easy |-> 200 + (i - 1) * 11]]] >>

PlaceholderMaps ==
    << [key |-> "Math",
        map |-> [i \in 1..MathPlaceholderLen |->
                   [raw |-> i - 1, hard |-> 200 + (i - 1) * 15, easy |-> 200 + (i - 1) * 10]]],
       [key |-> "Reading and Writing",
        map |-> [i \in 1..RWPlaceholderLen |->
                   [raw |-> i - 1, hard |-> 200 + (i - 1) * 11, easy |-> 200 + (i - 1) * 8]]] >>

\* maps_in = <<>> stands for both None and the empty list: `not scoring_maps`
Construct(maps_in, threshold) ==
    [scoring_maps        |-> IF maps_in = <<>> THEN PlaceholderMaps ELSE maps_in,
     placeholder_scoring |-> (maps_in = <<>>),
     adaptive_threshold  |-> threshold]

\* A supplied map set (what scoring_DSAT_v2.json may hold): Math only, raw 2
\* missing, values inside [200, 800], not monotonic in raw.
SuppliedMaps ==
    << [key |-> "Math",
        map |-> << [raw |-> 0, hard |-> 200, easy |-> 200],
                   [raw |-> 1, hard |-> 400, easy |-> 300],
                   [raw |-> 3, hard |-> 350, easy |-> 360],
                   [raw |-> 20, hard |-> 610, easy |-> 540],
                   [raw |-> 22, hard |-> 800, easy |-> 560] >>] >>

MapInputs == {<<>>, SuppliedMaps}

---------------------------------------------------------------------------
(* determine_module2_difficulty *)

\* the comparison with > in place of >=
RatioAbove(c, t, threshold) == 100 * c > threshold.pct * t

\* (c / t) >= threshold on floats, t > 0
RatioAtLeast(c, t, threshold) ==
    \/ 100 * c > threshold.pct * t
    \/ 100 * c = threshold.pct * t /\ threshold.ulp <= 0

determine_module2_difficulty(threshold, module1_correct, module1_total) ==
    IF module1_total = 0 THEN "easy"
    ELSE IF RatioAtLeast(module1_correct, module1_total, threshold) THEN "hard" ELSE "easy"

---------------------------------------------------------------------------
(* calculate_scaled_score *)

RECURSIVE FirstMap(_, _, _)
\* next((item['map'] for item in maps if item['key'] == subject), None)
FirstMap(maps, subject, i) ==
    IF i > Len(maps) THEN <<>>
    ELSE IF maps[i].key = subject THEN maps[i].map
    ELSE FirstMap(maps, subject, i + 1)

\* a lookup that takes the first entry at or above the raw score
EntryAtLeast(score, raw_score) == score.raw >= raw_score

EntryMatches(score, raw_score) == score.raw = raw_score

RECURSIVE FirstEntry(_, _, _, _)
\* for score in map_data: if score['raw'] == raw_score: return score[tier]
FirstEntry(map_data, raw_score, tier, i) ==
    IF i > Len(map_data) THEN DefaultScore
    ELSE IF EntryMatches(map_data[i], raw_score)
         THEN (IF tier = "hard" THEN map_data[i].hard ELSE map_data[i].easy)
    ELSE FirstEntry(map_data, raw_score, tier, i + 1)

calculate_scaled_score(maps, subject, raw_score, module2_difficulty) ==
    LET map_data == FirstMap(maps, subject, 1)
    IN  IF map_data = <<>> THEN DefaultScore
        ELSE FirstEntry(map_data, raw_score, module2_difficulty, 1)

---------------------------------------------------------------------------
(* The methods called on their own *)

Idle ==
    /\ student_data = <<>>
    /\ performance = None
    /\ calls = {}
    /\ additional_correct = 0
    /\ what_if_results = None
    /\ threshold_data = <<>>
    /\ optimal_threshold = None

NoCall ==
    /\ fn = None
    /\ fn_args = <<>>
    /\ fn_ret = None

ThresholdInputs == {Thr(30, 0), Thr(50, 0), Thr(60, 0), Thr(60, -1), Thr(100, 0)}
SubjectInputs == SubjectSet \cup {"Science"}

InitScoring ==
    /\ \E m \in MapInputs, th \in ThresholdInputs :
          LET self == Construct(m, th)
          IN  /\ scoring_maps = self.scoring_maps
              /\ placeholder_scoring = self.placeholder_scoring
              /\ adaptive_threshold = self.adaptive_threshold
    /\ pc = "call"
    /\ Idle
    /\ NoCall

CallCalculateScaledScore ==
    /\ pc = "call"
    /\ \E subject \in SubjectInputs, raw_score \in 0..MaxRawArg, tier \in Tiers :
          /\ fn' = "calculate_scaled_score"
          /\ fn_args' = <<subject, raw_score, tier>>
          /\ fn_ret' = calculate_scaled_score(scoring_maps, subject, raw_score, tier)
    /\ pc' = "returned"
    /\ UNCHANGED <<scoring_maps, placeholder_scoring, adaptive_threshold, student_data,
                   performance, calls, additional_correct, what_if_results,
                   threshold_data, optimal_threshold>>

CallDetermineModule2Difficulty ==
    /\ pc = "call"
    /\ \E module1_correct \in 0..MaxModule1, module1_total \in 0..MaxModule1 :
          /\ fn' = "determine_module2_difficulty"
          /\ fn_args' = <<module1_correct, module1_total>>
          /\ fn_ret' = determine_module2_difficulty(adaptive_threshold,
                                                    module1_correct, module1_total)
    /\ pc' = "returned"
    /\ UNCHANGED <<scoring_maps, placeholder_scoring, adaptive_threshold, student_data,
                   performance, calls, additional_correct, what_if_results,
                   threshold_data, optimal_threshold>>

NextScoring ==
    \/ CallCalculateScaledScore
    \/ CallDetermineModule2Difficulty

SpecScoring == InitScoring /\ [][NextScoring]_vars

---------------------------------------------------------------------------
(* calculate_prediction_accuracy, find_optimal_threshold *)

\* numpy.arange(0.3, 0.8, 0.05): ten doubles, start + i * ((start + step) - start)
Candidates ==
    << Thr(30, 0), Thr(35, 0), Thr(40, -1), Thr(45, -1), Thr(50, -1),
       Thr(55, -1), Thr(60, -1), Thr(65, -1), Thr(70, 0), Thr(75, -1) >>

\* best_threshold = 0.5, the literal
InitialBestThreshold == Thr(50, 0)

\* a float quotient of two small counts, kept as the exact fraction
Frac(n, d) == [num |-> n, den |-> d]
FracGreater(a, b) == a.num * b.den > b.num * a.den

PredictedTier(student, threshold) ==
    IF RatioAtLeast(student.module1_correct, student.module1_total, threshold)
    THEN "hard" ELSE "easy"

ActualTier(student) == IF student.got_hard_module2 THEN "hard" ELSE "easy"

RECURSIVE PredictionCounts(_, _, _, _, _)
\* the loop of calculate_prediction_accuracy: <<correct_predictions, total_valid>>
PredictionCounts(data, threshold, i, correct_predictions, total_valid) ==
    IF i > Len(data) THEN <<correct_predictions, total_valid>>
    ELSE IF data[i].module1_total = 0
         THEN PredictionCounts(data, threshold, i + 1, correct_predictions, total_valid)
    ELSE PredictionCounts(data, threshold, i + 1,
             IF PredictedTier(data[i], threshold) = ActualTier(data[i])
             THEN correct_predictions + 1 ELSE correct_predictions,
             total_valid + 1)

calculate_prediction_accuracy(data, threshold) ==
    LET counts == PredictionCounts(data, threshold, 1, 0, 0)
    IN  IF counts[2] # 0 THEN Frac(counts[1], counts[2]) ELSE Frac(0, 1)

Improves(accuracy, best_accuracy) == FracGreater(accuracy, best_accuracy)

RECURSIVE ThresholdScan(_, _, _, _)
\* the loop of find_optimal_threshold
ThresholdScan(data, i, best_accuracy, best_threshold) ==
    IF i > Len(Candidates) THEN best_threshold
    ELSE LET accuracy == calculate_prediction_accuracy(data, Candidates[i])
         IN  IF Improves(accuracy, best_accuracy)
             THEN ThresholdScan(data, i + 1, accuracy, Candidates[i])
             ELSE ThresholdScan(data, i + 1, best_accuracy, best_threshold)

find_optimal_threshold(data) ==
    ThresholdScan(data, 1, Frac(0, 1), InitialBestThreshold)

\* the sample list the program passes
ProgramThresholdData ==
    << [module1_correct |-> 20, module1_total |-> 22, got_hard_module2 |-> TRUE],
       [module1_correct |-> 25, module1_total |-> 27, got_hard_module2 |-> TRUE] >>

SampleTotals == {0, 4, 5}
SampleInputs ==
    { [module1_correct |-> c, module1_total |-> t, got_hard_module2 |-> g] :
        <<c, t, g>> \in { x \in (0..5) \X SampleTotals \X BOOLEAN : x[1] <= x[2] } }

SampleLists ==
    UNION { [1..n -> SampleInputs] : n \in 0..MaxSamples } \cup {ProgramThresholdData}

InitCalib ==
    /\ \E self \in {Construct(<<>>, DefaultThreshold)} :
          /\ scoring_maps = self.scoring_maps
          /\ placeholder_scoring = self.placeholder_scoring
          /\ adaptive_threshold = self.adaptive_threshold
    /\ pc = "call"
    /\ student_data = <<>>
    /\ performance = None
    /\ calls = {}
    /\ additional_correct = 0
    /\ what_if_results = None
    /\ threshold_data \in SampleLists
    /\ optimal_threshold = None
    /\ NoCall

CallFindOptimalThreshold ==
    /\ pc = "call"
    /\ fn' = "find_optimal_threshold"
    /\ fn_args' = <<>>
    /\ fn_ret' = None
    /\ optimal_threshold' = find_optimal_threshold(threshold_data)
    /\ pc' = "returned"
    /\ UNCHANGED <<scoring_maps, placeholder_scoring, adaptive_threshold, student_data,
                   performance, calls, additional_correct, what_if_results, threshold_data>>

CallCalculatePredictionAccuracy ==
    /\ pc = "call"
    /\ \E i \in DOMAIN Candidates :
          /\ fn' = "calculate_prediction_accuracy"
          /\ fn_args' = <<Candidates[i]>>
          /\ fn_ret' = calculate_prediction_accuracy(threshold_data, Candidates[i])
    /\ pc' = "returned"
    /\ UNCHANGED <<scoring_maps, placeholder_scoring, adaptive_threshold, student_data,
                   performance, calls, additional_correct, what_if_results,
                   threshold_data, optimal_threshold>>

NextCalib ==
    \/ CallFindOptimalThreshold
    \/ CallCalculatePredictionAccuracy

SpecCalib == InitCalib /\ [][NextCalib]_vars

---------------------------------------------------------------------------
(* Claims about the calibration, checked under SpecCalib *)

FindReturned == pc = "returned" /\ fn = "find_optimal_threshold"

ValidSamples == { i \in DOMAIN threshold_data : threshold_data[i].module1_total > 0 }

\* correct predictions of candidate i over the valid samples (all candidates
\* share the denominator)
Hits(i) ==
    Cardinality({ k \in ValidSamples :
        (100 * threshold_data[k].module1_correct
             >= Candidates[i].pct * threshold_data[k].module1_total)
          = threshold_data[k].got_hard_module2 })

\* C3: with at least one valid sample, find_optimal_threshold returns the
\* lowest candidate of the ascending scan whose accuracy equals the maximum
\* accuracy over all candidates, also when every candidate has the same
\* accuracy (accuracy 0 for all).
C3_LowestBestCandidate ==
    (FindReturned /\ ValidSamples # {}) =>
        \E i \in DOMAIN Candidates :
            /\ optimal_threshold = Candidates[i]
            /\ \A j \in DOMAIN Candidates : Hits(j) <= Hits(i)
            /\ \A j \in 1..(i - 1) : Hits(j) < Hits(i)

\* The scan on sample lists on which some candidate predicts at least one
\* sample: the lowest candidate of maximal accuracy is returned.
C3_LowestBestWhenPositive ==
    (FindReturned /\ \E j \in DOMAIN Candidates : Hits(j) > 0) =>
        \E i \in DOMAIN Candidates :
            /\ optimal_threshold = Candidates[i]
            /\ \A j \in DOMAIN Candidates : Hits(j) <= Hits(i)
            /\ \A j \in 1..(i - 1) : Hits(j) < Hits(i)

---------------------------------------------------------------------------
(* Response records *)

\* A record of the response list.  None in a field stands for a missing key.
Response(qid, oid, subject, section, correct, topic, time_spent, compleixty, complexity) ==
    [question_id |-> qid, id |-> oid, subject |-> subject, section |-> section,
     correct |-> correct, topic |-> topic, time_spent |-> time_spent,
     compleixty |-> compleixty, complexity |-> complexity]

\* identifiers are positive integers; NoId stands for a missing key
NoId == 0

\* q.get('question_id', q.get('_id'))
QuestionId(q) == IF q.question_id # NoId THEN q.question_id ELSE q.id

\* q.get('compleixty', q.get('complexity', 'Unknown'))
Complexity(q) ==
    IF q.compleixty # None THEN q.compleixty
    ELSE IF q.complexity # None THEN q.complexity
    ELSE "Unknown"

\* `if topic:` on q.get('topic', {}).get('name')
HasTopic(q) == q.topic # None /\ q.topic # ""

IsStage1(q) == q.section = Stage1Section
\* a Stage2 test that forgets the 'Module 2' label
IsStage2Short(q) == q.section \in (Stage2Sections \ {"Module 2"})
IsStage2(q) == q.section \in Stage2Sections

Min(a, b) == IF a <= b THEN a ELSE b

\* n / d rounded to the nearest integer (no quotient of the model is a tie)
RoundDiv(n, d) == (2 * n + d) \div (2 * d)

\* f"{(correct / total) * 100:.2f}%", in hundredths of a percent
Percent2(correct, total) == RoundDiv(10000 * correct, total)

CountCorrect(data) == Len(SelectSeq(data, LAMBDA q : q.correct))

RECURSIVE SumTimes(_, _)
SumTimes(data, i) ==
    IF i > Len(data) THEN 0 ELSE data[i].time_spent + SumTimes(data, i + 1)

---------------------------------------------------------------------------
(* analyze_performance *)

\* a weak-topic test with <= in place of <
IsWeakOrHalf(correct, total) == total > 0 /\ 2 * correct <= total

\* stats['total'] > 0 and stats['correct'] / stats['total'] < 0.5
IsWeak(correct, total) == total > 0 /\ 2 * correct < total

SlowQuestions(subject_data) ==
    LET slow == SelectSeq(subject_data, LAMBDA q : q.time_spent > SlowLimitMs)
    IN  [i \in DOMAIN slow |->
            [question_id |-> QuestionId(slow[i]), topic |-> slow[i].topic,
             time_spent_ms |-> slow[i].time_spent]]

TopicsOf(subject_data) ==
    { subject_data[i].topic : i \in { k \in DOMAIN subject_data : HasTopic(subject_data[k]) } }

TopicData(subject_data, topic) == SelectSeq(subject_data, LAMBDA q : q.topic = topic)

WeakTopics(subject_data) ==
    LET weak == { t \in TopicsOf(subject_data) :
                    IsWeak(CountCorrect(TopicData(subject_data, t)),
                           Len(TopicData(subject_data, t))) }
    IN  [t \in weak |-> Percent2(CountCorrect(TopicData(subject_data, t)),
                                 Len(TopicData(subject_data, t)))]

TopicClusters(subject_data) ==
    [t \in TopicsOf(subject_data) |->
        LET td == TopicData(subject_data, t)
        IN  [acc |-> Percent2(CountCorrect(td), Len(td)),
             \* sum(time_spent_s) / len, ".2f": hundredths of a second
             avg_time |-> RoundDiv(SumTimes(td, 1), 10 * Len(td))]]

ZeroedSummary ==
    [Module1 |-> [correct |-> 0, total |-> 0, accuracy |-> Frac(0, 1)],
     Module2 |-> [correct |-> 0, total |-> 0, difficulty |-> "easy"],
     raw_score |-> 0,
     scaled_score |-> DefaultScore,
     slow_questions |-> <<>>,
     weak_topics |-> <<>>,
     topic_clusters |-> <<>>]

\* the short-circuit guard off: every subject is scored
NeverSkips(module1_total) == FALSE

\* `if module1_total == 0: ... continue`
SkipsScoring(module1_total) == module1_total = 0

RawScore(module1_correct, module2_correct) == module1_correct + module2_correct

\* one iteration of the subject loop: the summary and the calls it made
AnalyzeSubject(maps, threshold, data, subject) ==
    LET subject_data == SelectSeq(data, LAMBDA q : q.subject = subject)
        module1_data == SelectSeq(subject_data, IsStage1)
        module2_data == SelectSeq(subject_data, IsStage2)
        module1_correct == CountCorrect(module1_data)
        module1_total == Len(module1_data)
        module2_correct == CountCorrect(module2_data)
        module2_total == Len(module2_data)
        raw_score == RawScore(module1_correct, module2_correct)
        module2_difficulty ==
            determine_module2_difficulty(threshold, module1_correct, module1_total)
        scaled_score == calculate_scaled_score(maps, subject, raw_score, module2_difficulty)
    IN  IF SkipsScoring(module1_total)
        THEN [summary |-> ZeroedSummary, calls |-> {}]
        ELSE [summary |->
                [Module1 |-> [correct |-> module1_correct, total |-> module1_total,
                              accuracy |-> Frac(module1_correct, module1_total)],
                 Module2 |-> [correct |-> module2_correct, total |-> module2_total,
                              difficulty |-> module2_difficulty],
                 raw_score |-> raw_score,
                 scaled_score |-> scaled_score,
                 slow_questions |-> SlowQuestions(subject_data),
                 weak_topics |-> WeakTopics(subject_data),
                 topic_clusters |-> TopicClusters(subject_data)],
              calls |-> {<<"determine_module2_difficulty", subject>>,
                         <<"calculate_scaled_score", subject>>}]

analyze_performance(maps, threshold, data) ==
    [subject \in SubjectSet |-> AnalyzeSubject(maps, threshold, data, subject)]

---------------------------------------------------------------------------
(* what_if_analysis *)

\* the new Stage1 count without the cap at module1_total
Uncapped(module1_correct, additional, module1_total) == module1_correct + additional

NewModule1Correct(module1_correct, additional, module1_total) ==
    Min(module1_correct + additional, module1_total)

\* the slice taken from the end of the list
LastQuestions(questions, additional) ==
    SubSeq(questions, Len(questions) - Min(additional, Len(questions)) + 1, Len(questions))

\* high_impact_questions[:additional_correct], additional_correct >= 0
FirstQuestions(questions, additional) ==
    SubSeq(questions, 1, Min(additional, Len(questions)))

WhatIfSubject(maps, threshold, data, subject, additional) ==
    LET subject_data == SelectSeq(data, LAMBDA q : q.subject = subject)
        module1_data == SelectSeq(subject_data, IsStage1)
        module2_data == SelectSeq(subject_data, IsStage2)
        module1_correct == CountCorrect(module1_data)
        module1_total == Len(module1_data)
        module2_correct == CountCorrect(module2_data)
        current_raw_score == RawScore(module1_correct, module2_correct)
        current_difficulty ==
            determine_module2_difficulty(threshold, module1_correct, module1_total)
        current_score ==
            calculate_scaled_score(maps, subject, current_raw_score, current_difficulty)
        new_module1_correct == NewModule1Correct(module1_correct, additional, module1_total)
        new_difficulty ==
            determine_module2_difficulty(threshold, new_module1_correct, module1_total)
        new_raw_score == new_module1_correct + module2_correct
        new_score == calculate_scaled_score(maps, subject, new_raw_score, new_difficulty)
        high_impact_questions == SelectSeq(module1_data, LAMBDA q : ~q.correct)
        chosen == FirstQuestions(high_impact_questions, additional)
    IN  [current_score |-> current_score,
         new_score |-> new_score,
         score_gain |-> new_score - current_score,
         high_impact_questions |->
            [i \in DOMAIN chosen |->
                [question_id |-> QuestionId(chosen[i]), topic |-> chosen[i].topic,
                 complexity |-> Complexity(chosen[i])]]]

what_if_analysis(maps, threshold, data, additional) ==
    [subject \in SubjectSet |-> WhatIfSubject(maps, threshold, data, subject, additional)]

---------------------------------------------------------------------------
(* The run of the program on one response list *)

TopicInputs == {None, "Algebra"}
SectionInputs == {Stage1Section, "Hard", "Easy"}

\* the i-th record of an enumerated list: its question_id is its position
ResponsesAt(i) ==
    { Response(i, NoId, subject, section, correct, topic, 30000, None, None) :
        <<subject, section, correct, topic>> \in
            SubjectSet \X SectionInputs \X BOOLEAN \X TopicInputs }

RECURSIVE ListsOfLength(_)
ListsOfLength(n) ==
    IF n = 0 THEN {<<>>}
    ELSE { Append(l, r) : l \in ListsOfLength(n - 1), r \in ResponsesAt(n) }

\* load_student_data raises on an empty list: a loaded list has a record
EnumeratedLists == UNION { ListsOfLength(n) : n \in 1..MaxResponses }

\* Math: 20 of 22 Stage1 responses correct, no Stage2 response
Scenario20of22 ==
    [i \in 1..22 |->
        Response(100 + i, NoId, "Math", Stage1Section, i \notin {9, 15},
                 IF i % 2 = 0 THEN "Algebra" ELSE "Geometry", 1000 * i + 40000,
                 None, IF i = 9 THEN "medium" ELSE None)]

\* every section label, a third subject, missing keys, slow responses;
\* Reading and Writing has Stage2 responses only
ScenarioMixed ==
    << Response(1, NoId, "Math", "Static", TRUE, "Algebra", 30000, None, "easy"),
       Response(2, NoId, "Math", "Static", FALSE, "Algebra", 61000, "hard", "medium"),
       Response(3, NoId, "Math", "Adaptive", TRUE, "Geometry", 60000, None, None),
       Response(4, NoId, "Math", "Module 2", FALSE, "Geometry", 60001, None, None),
       Response(5, NoId, "Math", "AdaptiveHard", TRUE, None, 20000, None, None),
       Response(6, NoId, "Math", "Easy", FALSE, "Algebra", 10000, None, None),
       Response(7, NoId, "Reading and Writing", "Hard", TRUE, "Grammar", 15000, None, None),
       Response(8, NoId, "Reading and Writing", "Module 2", FALSE, "Grammar", 90000, None, None),
       Response(9, NoId, "Science", "Static", TRUE, "Cells", 70000, None, None),
       Response(NoId, 910, "Math", "Static", FALSE, "Data", 45000, None, None),
       Response(11, NoId, "Math", "Static", FALSE, "", 45000, None, None) >>

ResponseLists == EnumeratedLists \cup {Scenario20of22, ScenarioMixed}

Init ==
    /\ \E m \in MapInputs :
          LET self == Construct(m, DefaultThreshold)
          IN  /\ scoring_maps = self.scoring_maps
              /\ placeholder_scoring = self.placeholder_scoring
              /\ adaptive_threshold = self.adaptive_threshold
    /\ student_data \in ResponseLists
    /\ pc = "loaded"
    /\ performance = None
    /\ calls = {}
    /\ additional_correct = 0
    /\ what_if_results = None
    /\ threshold_data = <<>>
    /\ optimal_threshold = None
    /\ NoCall

AnalyzePerformance ==
    /\ pc = "loaded"
    /\ LET result == analyze_performance(scoring_maps, adaptive_threshold, student_data)
       IN  /\ performance' = [subject \in SubjectSet |-> result[subject].summary]
           /\ calls' = UNION { result[subject].calls : subject \in SubjectSet }
    /\ pc' = "analyzed"
    /\ UNCHANGED <<scoring_maps, placeholder_scoring, adaptive_threshold, student_data,
                   additional_correct, what_if_results, fn, fn_args, fn_ret,
                   threshold_data, optimal_threshold>>

WhatIfAnalysis ==
    /\ pc = "analyzed"
    /\ \E additional \in 0..MaxAdditional :
          /\ additional_correct' = additional
          /\ what_if_results' =
                what_if_analysis(scoring_maps, adaptive_threshold, student_data, additional)
    /\ pc' = "done"
    /\ UNCHANGED <<scoring_maps, placeholder_scoring, adaptive_threshold, student_data,
                   performance, calls, fn, fn_args, fn_ret,
                   threshold_data, optimal_threshold>>

Next ==
    \/ AnalyzePerformance
    \/ WhatIfAnalysis

Spec == Init /\ [][Next]_vars

---------------------------------------------------------------------------
(* Claims about the scoring methods, checked under SpecScoring *)

CalcReturned == pc = "returned" /\ fn = "calculate_scaled_score"
DetReturned == pc = "returned" /\ fn = "determine_module2_difficulty"

\* C2: every scaled score calculate_scaled_score returns lies in [200, 800],
\* for every subject, raw score and tier, also with the placeholder map.
C2_ScaledScoreInRange ==
    CalcReturned => (fn_ret >= 200 /\ fn_ret <= 800)

\* the entries configured for a subject with the given raw score
ConfiguredValues(subject, raw_score, tier) ==
    UNION { { IF tier = "hard" THEN m.map[j].hard ELSE m.map[j].easy :
                j \in { x \in DOMAIN m.map : m.map[x].raw = raw_score } } :
            m \in { scoring_maps[i] :
                      i \in { x \in DOMAIN scoring_maps : scoring_maps[x].key = subject } } }

\* C8: calculate_scaled_score returns exactly 200 when the subject has no
\* map or no entry of its map has raw equal to the raw score (exact match
\* only), and the matching entry's value for the tier otherwise.
C8_ExactMatchOrDefault ==
    CalcReturned =>
        LET values == ConfiguredValues(fn_args[1], fn_args[2], fn_args[3])
        IN  IF values = {} THEN fn_ret = 200 ELSE values = {fn_ret}

\* a raw score between two configured entries of a supplied map, and one above them
C8_Witness ==
    /\ CalcReturned
    /\ ~placeholder_scoring
    /\ fn_args[1] = "Math"
    /\ fn_args[2] = 2
    /\ fn_ret = 200

\* C9: determine_module2_difficulty returns easy whenever module1_total = 0;
\* for module1_total > 0 it returns hard iff correct/total >= threshold
\* (boundary included); a higher ratio never turns hard into easy.
C9_ClassifierRule ==
    DetReturned =>
        LET c == fn_args[1]
            t == fn_args[2]
        IN  /\ t = 0 => fn_ret = "easy"
            /\ t > 0 => (fn_ret = "hard" <=> 100 * c >= adaptive_threshold.pct * t)
            /\ fn_ret \in Tiers
            /\ \A c2 \in 0..MaxModule1, t2 \in 1..MaxModule1 :
                  (t > 0 /\ fn_ret = "hard" /\ c2 * t >= c * t2)
                     => determine_module2_difficulty(adaptive_threshold, c2, t2) = "hard"

\* the ratio 3/5 exactly at the threshold 0.6 is classified hard
C9_Witness ==
    /\ DetReturned
    /\ adaptive_threshold = DefaultThreshold
    /\ fn_args = <<3, 5>>
    /\ fn_ret = "hard"

---------------------------------------------------------------------------
(* Claims about a run, checked under Spec *)

Analyzed == pc \in {"analyzed", "done"}
Done == pc = "done"

\* positions of the responses of a subject, by stage, counted on the input
Of(subject) == { i \in DOMAIN student_data : student_data[i].subject = subject }
Stage1Of(subject) == { i \in Of(subject) : student_data[i].section = "Static" }
Stage2Of(subject) ==
    { i \in Of(subject) :
        student_data[i].section \in {"Hard", "Adaptive", "Module 2", "AdaptiveHard"} }
CorrectIn(I) == Cardinality({ i \in I : student_data[i].correct })
WrongStage1Of(subject) == { i \in Stage1Of(subject) : ~student_data[i].correct }

\* C1: for every response list and subject, current_score of
\* what_if_analysis equals scaled_score of analyze_performance, also when
\* the subject has no Stage1 response and a correct Stage2 response.
C1_CurrentScoreIsScaledScore ==
    Done => \A subject \in SubjectSet :
                what_if_results[subject].current_score = performance[subject].scaled_score

\* C4: new Stage1 correct = min(correct + additional, total); the tier is
\* classified again from it; the new raw score adds the unchanged Stage2
\* correct count; new_score is the scaled score of these; score_gain =
\* new_score - current_score (20 of 22 in Math, 2 more: 530, gain 30).
C4_WhatIfRescoring ==
    Done => \A subject \in SubjectSet :
        LET w == what_if_results[subject]
            c1 == CorrectIn(Stage1Of(subject))
            t1 == Cardinality(Stage1Of(subject))
            c2 == CorrectIn(Stage2Of(subject))
            new1 == IF c1 + additional_correct <= t1 THEN c1 + additional_correct ELSE t1
            tier == determine_module2_difficulty(adaptive_threshold, new1, t1)
        IN  /\ w.new_score = calculate_scaled_score(scoring_maps, subject, new1 + c2, tier)
            /\ w.score_gain = w.new_score - w.current_score
            /\ (student_data = Scenario20of22 /\ placeholder_scoring
                  /\ additional_correct = 2 /\ subject = "Math")
                 => (w.new_score = 530 /\ w.score_gain = 30)

\* the scenario of 20 of 22 with two more correct answers
C4_Witness ==
    /\ Done
    /\ student_data = Scenario20of22
    /\ placeholder_scoring
    /\ additional_correct = 2
    /\ what_if_results["Math"].new_score = 530
    /\ what_if_results["Math"].score_gain = 30

\* the j-th wrong Stage1 response of a subject, in input order
NthWrong(subject, j) ==
    CHOOSE i \in WrongStage1Of(subject) :
        Cardinality({ x \in WrongStage1Of(subject) : x <= i }) = j

\* C5: high_impact_questions is exactly the first min(additional_correct, k)
\* wrong Stage1 responses of the subject in input order, k their number;
\* it is never longer than additional_correct and holds no correct and no
\* Stage2 response.
C5_HighImpactQuestions ==
    Done => \A subject \in SubjectSet :
        LET hi == what_if_results[subject].high_impact_questions
            k == Cardinality(WrongStage1Of(subject))
            m == IF additional_correct <= k THEN additional_correct ELSE k
        IN  /\ Len(hi) = m
            /\ Len(hi) <= additional_correct
            /\ \A j \in 1..m :
                  LET q == student_data[NthWrong(subject, j)]
                  IN  /\ hi[j].question_id =
                            (IF q.question_id # 0 THEN q.question_id ELSE q.id)
                      /\ hi[j].topic = q.topic
                      /\ ~q.correct
                      /\ q.section = "Static"

\* more wrong Stage1 responses than requested: the list is cut
C5_Witness ==
    /\ Done
    /\ additional_correct >= 1
    /\ \E subject \in SubjectSet :
          /\ Cardinality(WrongStage1Of(subject)) > additional_correct
          /\ Len(what_if_results[subject].high_impact_questions) = additional_correct

\* C6: with Stage1 total > 0, raw_score = Stage1 correct + Stage2 correct,
\* difficulty = classifier(Stage1 correct, Stage1 total, threshold),
\* scaled_score = calculate_scaled_score(subject, raw_score, difficulty);
\* Stage1 is section 'Static', Stage2 the four Stage2 labels, any other
\* section counts in neither; without Stage2 the raw score is Stage1 alone
\* (placeholder Math map, 20 of 22: hard, raw 20, scaled 500).
C6_AnalyzeScoring ==
    Analyzed => \A subject \in SubjectSet :
        Stage1Of(subject) # {} =>
            LET p == performance[subject]
                c1 == CorrectIn(Stage1Of(subject))
                t1 == Cardinality(Stage1Of(subject))
                c2 == CorrectIn(Stage2Of(subject))
            IN  /\ p.Module1.correct = c1
                /\ p.Module1.total = t1
                /\ p.Module2.correct = c2
                /\ p.Module2.total = Cardinality(Stage2Of(subject))
                /\ p.raw_score = c1 + c2
                /\ p.Module2.difficulty =
                      determine_module2_difficulty(adaptive_threshold, c1, t1)
                /\ p.scaled_score =
                      calculate_scaled_score(scoring_maps, subject, c1 + c2,
                                             p.Module2.difficulty)
                /\ Stage2Of(subject) = {} => p.raw_score = c1
                /\ (student_data = Scenario20of22 /\ placeholder_scoring /\ subject = "Math")
                     => (p.Module2.difficulty = "hard" /\ p.raw_score = 20
                           /\ p.scaled_score = 500)

\* the scenario of 20 of 22 Stage1 responses and no Stage2 response
C6_Witness ==
    /\ Analyzed
    /\ student_data = Scenario20of22
    /\ placeholder_scoring
    /\ performance["Math"].Module2.total = 0
    /\ performance["Math"].scaled_score = 500

\* C7: a subject without Stage1 responses gets the zeroed summary (counts 0,
\* difficulty easy, raw_score 0, scaled_score 200, no weak_topics,
\* slow_questions or topic_clusters), whatever its other responses, and
\* neither determine_module2_difficulty nor calculate_scaled_score is
\* called for it.
C7_ZeroedWithoutStage1 ==
    Analyzed => \A subject \in SubjectSet :
        Stage1Of(subject) = {} =>
            LET p == performance[subject]
            IN  /\ p.Module1.correct = 0 /\ p.Module1.total = 0
                /\ p.Module2.correct = 0 /\ p.Module2.total = 0
                /\ p.Module2.difficulty = "easy"
                /\ p.raw_score = 0
                /\ p.scaled_score = 200
                /\ DOMAIN p.weak_topics = {}
                /\ DOMAIN p.topic_clusters = {}
                /\ Len(p.slow_questions) = 0
                /\ \A c \in calls : c[2] # subject

\* a subject with a correct, a wrong and a slow Stage2 response and no Stage1
C7_Witness ==
    /\ Analyzed
    /\ student_data = ScenarioMixed
    /\ Stage1Of("Reading and Writing") = {}
    /\ CorrectIn(Stage2Of("Reading and Writing")) > 0
    /\ performance["Reading and Writing"].scaled_score = 200
    /\ <<"calculate_scaled_score", "Math">> \in calls

\* the named topics of a subject and the responses on each, on the input
NamedTopicsOf(subject) ==
    { student_data[i].topic : i \in Of(subject) } \ {"None", ""}
OnTopic(subject, topic) == { i \in Of(subject) : student_data[i].topic = topic }
BelowHalf(subject) ==
    { t \in NamedTopicsOf(subject) :
        2 * CorrectIn(OnTopic(subject, t)) < Cardinality(OnTopic(subject, t)) }

\* C10 as stated: for every response list and subject, weak_topics lists
\* exactly the topics of the subject with accuracy strictly below 50%.
C10_WeakTopicsAlways ==
    Analyzed => \A subject \in SubjectSet :
        DOMAIN performance[subject].weak_topics = BelowHalf(subject)

\* C10 amended: for every subject with at least one Stage1 response,
\* weak_topics lists exactly the topics of the subject with accuracy
\* strictly below 50% (a topic at exactly 50% is not listed); for a subject
\* without Stage1 responses weak_topics is empty.
C10_WeakTopicsWhenScored ==
    Analyzed => \A subject \in SubjectSet :
        /\ Stage1Of(subject) # {} =>
              DOMAIN performance[subject].weak_topics = BelowHalf(subject)
        /\ Stage1Of(subject) = {} => DOMAIN performance[subject].weak_topics = {}

\* a scored subject with one topic at exactly 50% and another below it
C10_Witness ==
    /\ Analyzed
    /\ \E subject \in SubjectSet :
          /\ Stage1Of(subject) # {}
          /\ \E t \in NamedTopicsOf(subject) :
                /\ 2 * CorrectIn(OnTopic(subject, t)) = Cardinality(OnTopic(subject, t))
                /\ t \notin DOMAIN performance[subject].weak_topics
          /\ DOMAIN performance[subject].weak_topics # {}

---------------------------------------------------------------------------
(* The run of the program with the placeholder map, under any threshold *)

\* Math: 21 of 22 Stage1 responses and 23 Stage2 responses correct, raw 44,
\* the last raw score of the placeholder Math map
ScenarioTopOfMap ==
    [i \in 1..45 |->
        Response(200 + i, NoId, "Math", IF i <= 22 THEN Stage1Section ELSE "Hard",
                 i # 7, "Algebra", 30000, None, None)]

InitThresholds ==
    /\ \E th \in ThresholdInputs :
          LET self == Construct(<<>>, th)
          IN  /\ scoring_maps = self.scoring_maps
              /\ placeholder_scoring = self.placeholder_scoring
              /\ adaptive_threshold = self.adaptive_threshold
    /\ student_data \in ResponseLists \cup {ScenarioTopOfMap}
    /\ pc = "loaded"
    /\ performance = None
    /\ calls = {}
    /\ additional_correct = 0
    /\ what_if_results = None
    /\ threshold_data = <<>>
    /\ optimal_threshold = None
    /\ NoCall

SpecThresholds == InitThresholds /\ [][Next]_vars

---------------------------------------------------------------------------
(* Claims about a run with the placeholder map, checked under SpecThresholds *)

\* the last raw score the placeholder map of a subject covers
LastCovered(subject) == IF subject = "Math" THEN 44 ELSE 54

\* the new raw score of a subject, counted on the input
NewRawOf(subject) ==
    LET c1 == CorrectIn(Stage1Of(subject))
        t1 == Cardinality(Stage1Of(subject))
    IN  (IF c1 + additional_correct <= t1 THEN c1 + additional_correct ELSE t1)
          + CorrectIn(Stage2Of(subject))

\* C11: with the placeholder map, for every response list, threshold,
\* subject and additional_correct >= 0 whose new raw score is covered by the
\* map (Math <= 44, Reading and Writing <= 54), score_gain >= 0, also when
\* the flip moves the tier from easy to hard.
C11_GainNotNegative ==
    (Done /\ placeholder_scoring) => \A subject \in SubjectSet :
        NewRawOf(subject) <= LastCovered(subject)
            => what_if_results[subject].score_gain >= 0

\* one more correct Stage1 answer moves a subject from easy to hard
C11_Witness ==
    /\ Done
    /\ placeholder_scoring
    /\ additional_correct >= 1
    /\ \E subject \in SubjectSet :
          LET c1 == CorrectIn(Stage1Of(subject))
              t1 == Cardinality(Stage1Of(subject))
          IN  /\ t1 > 0
              /\ 100 * c1 < adaptive_threshold.pct * t1
              /\ 100 * (c1 + 1) >= adaptive_threshold.pct * t1
              /\ c1 + 1 <= t1
              /\ performance[subject].Module2.difficulty = "easy"
              /\ NewRawOf(subject) <= LastCovered(subject)
              /\ what_if_results[subject].score_gain > 0

\* Outside the covered range the gain can be negative: from raw 44 one more
\* correct answer leaves the placeholder Math map and scores the default.
UncoveredGainNotNegative ==
    (Done /\ placeholder_scoring) => \A subject \in SubjectSet :
        what_if_results[subject].score_gain >= 0

===========================================================================
